---- MODULE Spec2Model ----
(***************************************************************************)
(* State-machine model of the Virtual Metrology RAG application:           *)
(*   src/Virtual_Metrology/app_streamlit.py          (the Streamlit script) *)
(*   src/Virtual_Metrology/agents/agent_orchestrator.py                     *)
(*                                                                          *)
(* Streamlit re-executes the whole script for every user event, so one      *)
(* script run is one action: the event's handler, then the cached loader    *)
(* of line 123, then (for "Ask Agent") the Ask handler.  The only run that  *)
(* is split into steps is the one that rebuilds the index, because other    *)
(* sessions' runs interleave with the ingestion it is blocked in.           *)
(*                                                                          *)
(* Two specifications:                                                      *)
(*   Spec          the application from process start.                      *)
(*   SpecHandlers  the Ask handler and agent_response driven as components, *)
(*                 with the retrieval chain a stub whose call outcomes are  *)
(*                 drawn from bounded sets.                                 *)
(***************************************************************************)
EXTENDS Integers, Sequences, FiniteSets, TLC

VARIABLES
    annotations,   \* how the interpreter evaluates annotations: "eager" | "lazy"
    files,         \* number of distinct log files in data/sample_logs
    disk_index,    \* the index persisted at vectorstore/faiss_index
    staging,       \* the index generations being built by running ingestions
    cache,         \* the st.cache_resource entry of load_rag_and_agent
    load_log,      \* what the body of load_rag_and_agent did when it ran
    ui,            \* what the last completed script run displayed
    probe,         \* what the last completed run called (observation only)
    rebuilt        \* a rebuild has reported success (observation only)

vars == <<annotations, files, disk_index, staging, cache, load_log, ui, probe, rebuilt>>

----------------------------------------------------------------------------
(* Bounds of the model *)

NumFiles == 2      \* distinct file names a user uploads
MaxRebuilds == 1   \* sessions that can be inside ingest_folder at once
NumChunks == 2     \* distinct chunks a retrieval can return

(* Program constants *)

K == 3                  \* search_kwargs={"k": 3}
MinSources == 1         \* number_input(min_value=1)
MaxSourcesLimit == 10   \* number_input(max_value=10)
DefaultMaxSources == 5  \* number_input(value=5)

Min(a, b) == IF a < b THEN a ELSE b

\* s[:n]
Take(s, n) == SubSeq(s, 1, Min(n, Len(s)))

----------------------------------------------------------------------------
(* Embedding models *)

\* HuggingFaceEmbeddings(model_name=...) of get_retrieval_chain
QueryModel == "all-MiniLM-L6-v2"

\* The models an index on disk can have been built with.
EmbeddingModels == {"all-MiniLM-L6-v2", "all-mpnet-base-v2"}

\* Output dimension of each embedding model.
Dim(m) == IF m = "all-mpnet-base-v2" THEN 768 ELSE 384

\* The index was built with another model than the one that embeds the query.
Mismatch(ix) == ix.model # QueryModel \/ Dim(ix.model) # Dim(QueryModel)

----------------------------------------------------------------------------
(* The persisted index *)

\* No directory at vectorstore/faiss_index.
NoIndex == [exists |-> FALSE, docs |-> 0, target |-> 0, model |-> "none"]

\* An index holding the chunks of docs files out of the target files of its run.
Index(docs, target, m) == [exists |-> TRUE, docs |-> docs, target |-> target, model |-> m]

\* An index generation is complete when its run embedded every file it read.
Complete(ix) == ix.exists /\ ix.docs = ix.target

CompleteIndexes == {Index(n, n, m) : n \in 0..NumFiles, m \in EmbeddingModels}

----------------------------------------------------------------------------
(* agents/agent_orchestrator.py *)

\* Texts are sequences of parts, so that an f-string keeps its pieces.
NoText == << >>

\* The names the module binds by its imports: RetrievalQA is used in the
\* annotation of line 12 and in the body at line 25, and no import binds it.
RetrievalQADefined == FALSE

\* qa_chain = None
NoChain == [kind |-> "None", index |-> NoIndex]

\* The chain RetrievalQA.from_chain_type would build over a loaded index.
RetrievalQAChain(ix) == [kind |-> "RetrievalQA", index |-> ix]

\* The outcomes of the external constructors: hf is HuggingFaceEmbeddings(...),
\* faiss is FAISS.load_local(...), openai is OpenAI(...).  TRUE: it returns.
Envs == [hf : BOOLEAN, faiss : BOOLEAN, openai : BOOLEAN]

Built(raised, constructed, view, chain) ==
    [raised |-> raised, constructed |-> constructed, view |-> view, chain |-> chain]

\* get_retrieval_chain with the existence check moved after the constructors.
GetRetrievalChain_LateCheck(ix, env) ==
    IF ~env.hf THEN Built("EmbeddingsError", {}, NoIndex, NoChain)
    ELSE IF ~ix.exists
    THEN Built("FileNotFoundError", {"embeddings"}, NoIndex, NoChain)
    ELSE IF ~env.faiss THEN Built("LoadError", {"embeddings"}, NoIndex, NoChain)
    ELSE IF ~env.openai
    THEN Built("OpenAIError", {"embeddings", "vectorstore"}, ix, NoChain)
    ELSE IF ~RetrievalQADefined
    THEN Built("NameError", {"embeddings", "vectorstore", "llm", "retriever"}, ix, NoChain)
    ELSE Built("none", {"embeddings", "vectorstore", "llm", "retriever"}, ix,
               RetrievalQAChain(ix))

\* get_retrieval_chain(vectorstore_path), ix being what is at vectorstore_path:
\* the exception it raises ("none": it returns chain), the objects it had
\* constructed by then, and the index FAISS.load_local read.
GetRetrievalChain(ix, env) ==
    IF ~ix.exists THEN Built("FileNotFoundError", {}, NoIndex, NoChain)
    ELSE IF ~env.hf THEN Built("EmbeddingsError", {}, NoIndex, NoChain)
    ELSE IF ~env.faiss THEN Built("LoadError", {"embeddings"}, NoIndex, NoChain)
    ELSE IF ~env.openai
    THEN Built("OpenAIError", {"embeddings", "vectorstore"}, ix, NoChain)
    ELSE IF ~RetrievalQADefined
    THEN Built("NameError", {"embeddings", "vectorstore", "llm", "retriever"}, ix, NoChain)
    ELSE Built("none", {"embeddings", "vectorstore", "llm", "retriever"}, ix,
               RetrievalQAChain(ix))

\* get_agent(): it returns the inner function agent_response, or raises what
\* OpenAI(temperature=0.3) raises.
GetAgent(env) ==
    IF env.openai THEN [raised |-> "none", agent |-> "agent_response"]
    ELSE [raised |-> "OpenAIError", agent |-> "None"]

ErrorMarker == "Error while generating response: "

\* One call of the language model provider: it answers or it raises.
ProviderAnswers == {<<"answer-1">>, <<"answer-2">>}
ProviderErrors == {"RateLimitError", "Timeout"}
ProviderCalls ==
    {[ok |-> TRUE, answer |-> a, error |-> "none"] : a \in ProviderAnswers}
    \cup {[ok |-> FALSE, answer |-> NoText, error |-> e] : e \in ProviderErrors}

\* agent_response without its try/except.
AgentResponse_NoExcept(question, llm) ==
    IF llm.ok THEN [ret |-> llm.answer, raised |-> "none", llm_calls |-> 1]
    ELSE [ret |-> NoText, raised |-> llm.error, llm_calls |-> 1]

\* agent_response(question): llm is the outcome of llm(prompt.format(...)).
AgentResponse(question, llm) ==
    IF llm.ok THEN [ret |-> llm.answer, raised |-> "none", llm_calls |-> 1]
    ELSE [ret |-> <<ErrorMarker, llm.error>>, raised |-> "none", llm_calls |-> 1]

----------------------------------------------------------------------------
(* app_streamlit.py: the cached loader *)

EmptyCache == [filled |-> FALSE, qa_chain |-> NoChain, agent |-> "None"]

\* found: the index directory existed when the body ran; during_build: an
\* ingestion was running then (both observation only).
NoLoad == [ran |-> FALSE, chain_raised |-> "none", agent_raised |-> "none",
           constructed |-> {}, view |-> NoIndex, msgs |-> {},
           found |-> FALSE, during_build |-> FALSE]

\* The body of load_rag_and_agent(): both try blocks.
LoadRagAndAgent(ix, env) ==
    LET c == GetRetrievalChain(ix, env)
        a == GetAgent(env)
    IN  [qa_chain |-> IF c.raised = "none" THEN c.chain ELSE NoChain,
         agent |-> IF a.raised = "none" THEN a.agent ELSE "None",
         log |-> [ran |-> TRUE, chain_raised |-> c.raised, agent_raised |-> a.raised,
                  constructed |-> c.constructed, view |-> c.view,
                  found |-> ix.exists, during_build |-> FALSE,
                  msgs |-> (IF c.raised = "none" THEN {"chain_ok"} ELSE {"chain_failed"})
                           \cup (IF a.raised = "none" THEN {"agent_ok"}
                                 ELSE {"agent_failed"})]]

----------------------------------------------------------------------------
(* app_streamlit.py: the Ask handler *)

BlankUI ==
    [sidebar |-> {}, crashed |-> FALSE, warning |-> FALSE,
     answered |-> FALSE, answer |-> NoText,
     agent_heading |-> FALSE, preview |-> NoText, agent_info |-> FALSE,
     sources_heading |-> FALSE, entries |-> << >>, notice |-> FALSE,
     error |-> FALSE]

BlankProbe ==
    [op |-> "none", query |-> "", max_sources |-> DefaultMaxSources,
     chain_calls |-> 0, retriever_calls |-> 0, agent_calls |-> 0, llm_calls |-> 0,
     o |-> <<"none", "none", "none">>, llm_docs |-> << >>, source_docs |-> << >>,
     escaped |-> "none", ret |-> NoText,
     llm |-> [ok |-> FALSE, answer |-> NoText, error |-> "none"]]

\* The text_input of line 85: the empty string, or a question.
Queries == {"", "Why did Lot L1234 show CD drift?"}

\* Values of the number_input of line 94 that are tried.
MaxSourcesChoices ==
    {n \in MinSources..MaxSourcesLimit : n \in {MinSources, DefaultMaxSources}}

Chunks == 1..NumChunks

\* What a retrieval returns: at most K chunks, no chunk twice, in rank order.
DocSeqs ==
    UNION {{s \in [1..n -> Chunks] : \A i, j \in 1..n : s[i] = s[j] => i = j}
           : n \in 0..Min(K, NumChunks)}

\* The documents come in the three forms the display loop tells apart: a
\* LangChain Document, a dict, and any other object.
DocOf(c) ==
    IF c % 3 = 1
    THEN [id |-> c, form |-> "Document", source |-> "lot1.log", filename |-> "", doc_id |-> ""]
    ELSE IF c % 3 = 2
    THEN [id |-> c, form |-> "dict", source |-> "", filename |-> "lot2.log", doc_id |-> ""]
    ELSE [id |-> c, form |-> "other", source |-> "", filename |-> "", doc_id |-> ""]

\* Python's a or b on strings.
PyOr(a, b) == IF a # "" THEN a ELSE b

\* meta.get("source") or meta.get("filename") or meta.get("doc_id") or f"source_{i}";
\* meta is {} for a document that is neither a Document nor a dict.
SourceLabel(doc, i) ==
    IF doc.form = "other" THEN "source_" \o ToString(i)
    ELSE PyOr(doc.source, PyOr(doc.filename, PyOr(doc.doc_id, "source_" \o ToString(i))))

\* The outcome of each of the three ways the handler invokes the chain:
\* [1] retrieval_chain({"query": query}), [2] retrieval_chain.run(query),
\* [3] retrieval_chain(query).  An outcome that is never looked at is "return".
ChainOutcomes == {"return", "TypeError", "Exception"}
ChainBehaviours ==
    {o \in [1..3 -> ChainOutcomes] :
        /\ o[1] # "TypeError" => (o[2] = "return" /\ o[3] = "return")
        /\ o[2] = "return" => o[3] = "return"}

\* The forms of the value a chain returns.  llm_docs are the chunks the chain
\* passed to the language model to produce that value.
Shapes == {"dict_result", "dict_answer", "dict_no_sources", "dict_no_text", "str"}

RagResult(shape, docs) ==
    [isdict |-> shape # "str",
     result |-> IF shape \in {"dict_result", "dict_no_sources"} THEN <<"chain answer">>
                ELSE NoText,
     answer |-> IF shape = "dict_answer" THEN <<"chain answer">> ELSE NoText,
     has_sd |-> shape \in {"dict_result", "dict_answer", "dict_no_text"},
     sd |-> IF shape \in {"dict_result", "dict_answer", "dict_no_text"} THEN docs
            ELSE << >>,
     str |-> IF shape = "str" THEN <<"chain answer">> ELSE <<"str(rag_result)">>,
     llm_docs |-> docs]

\* What retrieval_chain.retriever.get_relevant_documents(query) does.
RetrieverOutcomes == {"returns", "raises", "no_attribute"}

AskEnv(o, shape, docs, retriever) ==
    [o |-> o, shape |-> shape, docs |-> docs, retriever |-> retriever]

QuietEnv == AskEnv([i \in 1..3 |-> "return"], "dict_result", << >>, "returns")

\* Lines 135-143 with one more fallback after the third invocation.
InvokeChain_Again(o) ==
    IF o[1] = "return" THEN [returned |-> TRUE, calls |-> 1, raised |-> "none"]
    ELSE IF o[1] = "TypeError"
    THEN IF o[2] = "return" THEN [returned |-> TRUE, calls |-> 2, raised |-> "none"]
         ELSE IF o[3] = "return" THEN [returned |-> TRUE, calls |-> 3, raised |-> "none"]
         ELSE [returned |-> FALSE, calls |-> 4, raised |-> o[3]]
    ELSE [returned |-> FALSE, calls |-> 1, raised |-> o[1]]

\* Lines 135-143: the invocations of the chain and what comes out of them.
InvokeChain(o) ==
    IF o[1] = "return" THEN [returned |-> TRUE, calls |-> 1, raised |-> "none"]
    ELSE IF o[1] = "TypeError"
    THEN IF o[2] = "return" THEN [returned |-> TRUE, calls |-> 2, raised |-> "none"]
         ELSE IF o[3] = "return" THEN [returned |-> TRUE, calls |-> 3, raised |-> "none"]
         ELSE [returned |-> FALSE, calls |-> 3, raised |-> o[3]]
    ELSE [returned |-> FALSE, calls |-> 1, raised |-> o[1]]

\* Lines 146-159: answer_text and source_docs from rag_result.
Normalise(rag, retriever, max_sources) ==
    IF rag.isdict
    THEN [answer_text |-> IF rag.result # NoText THEN rag.result
                          ELSE IF rag.answer # NoText THEN rag.answer ELSE rag.str,
          source_docs |-> IF rag.has_sd /\ rag.sd # << >> THEN rag.sd
                          ELSE IF rag.has_sd THEN rag.sd ELSE << >>,
          retriever_calls |-> 0]
    ELSE [answer_text |-> rag.str,
          source_docs |-> IF retriever = "returns" THEN Take(rag.llm_docs, max_sources)
                          ELSE << >>,
          retriever_calls |-> IF retriever = "no_attribute" THEN 0 ELSE 1]

\* The attributes of the object get_agent returns, a plain function.
AgentAttributes(agent) ==
    IF agent = "agent_response" THEN {"__call__", "__name__", "__doc__"} ELSE {}

\* Lines 165-172: agent.run(query) inside its try/except.
AgentStep(agent, query) ==
    IF agent = "None"
    THEN [heading |-> FALSE, preview |-> NoText, info |-> FALSE, calls |-> 0]
    ELSE IF "run" \in AgentAttributes(agent)
    THEN [heading |-> TRUE, preview |-> <<"agent.run(query)">>, info |-> FALSE, calls |-> 1]
    ELSE [heading |-> TRUE, preview |-> NoText, info |-> TRUE, calls |-> 0]

\* The display loop with the notice shown after the entries as well.
DisplaySources_AlwaysNotice(source_docs, max_sources) ==
    [heading |-> source_docs # << >>,
     entries |-> [i \in 1..Len(Take(source_docs, max_sources)) |->
                    [rank |-> i, doc |-> source_docs[i],
                     label |-> SourceLabel(DocOf(source_docs[i]), i)]],
     notice |-> TRUE]

\* Lines 175-194: the entries shown, or the notice.
DisplaySources(source_docs, max_sources) ==
    IF source_docs # << >>
    THEN [heading |-> TRUE,
          entries |-> [i \in 1..Len(Take(source_docs, max_sources)) |->
                         [rank |-> i, doc |-> source_docs[i],
                          label |-> SourceLabel(DocOf(source_docs[i]), i)]],
          notice |-> FALSE]
    ELSE [heading |-> FALSE, entries |-> << >>, notice |-> TRUE]

AskProbe(query, max_sources, env) ==
    [BlankProbe EXCEPT !.op = "ask", !.query = query, !.max_sources = max_sources,
                       !.o = env.o]

\* Line 128: not query or retrieval_chain is None.
AskGuard(chain, query) == query = "" \/ chain.kind = "None"

\* Lines 132-197 without the outer try/except.
AskBody_NoExcept(chain, agent, query, max_sources, env) ==
    LET inv == InvokeChain(env.o)
        rag == RagResult(env.shape, env.docs)
        n == Normalise(rag, env.retriever, max_sources)
        ag == AgentStep(agent, query)
        src == DisplaySources(n.source_docs, max_sources)
    IN  IF ~inv.returned
        THEN [ui |-> BlankUI,
              probe |-> [AskProbe(query, max_sources, env) EXCEPT
                            !.chain_calls = inv.calls, !.escaped = inv.raised]]
        ELSE [ui |-> [BlankUI EXCEPT
                        !.answered = TRUE, !.answer = n.answer_text,
                        !.agent_heading = ag.heading, !.preview = ag.preview,
                        !.agent_info = ag.info,
                        !.sources_heading = src.heading, !.entries = src.entries,
                        !.notice = src.notice],
              probe |-> [AskProbe(query, max_sources, env) EXCEPT
                            !.chain_calls = inv.calls,
                            !.retriever_calls = n.retriever_calls,
                            !.agent_calls = ag.calls,
                            !.llm_docs = rag.llm_docs,
                            !.source_docs = n.source_docs]]

\* Lines 132-197: the else branch of the Ask handler.
AskBody(chain, agent, query, max_sources, env) ==
    LET inv == InvokeChain(env.o)
        rag == RagResult(env.shape, env.docs)
        n == Normalise(rag, env.retriever, max_sources)
        ag == AgentStep(agent, query)
        src == DisplaySources(n.source_docs, max_sources)
    IN  IF ~inv.returned
        THEN [ui |-> [BlankUI EXCEPT !.error = TRUE],
              probe |-> [AskProbe(query, max_sources, env) EXCEPT !.chain_calls = inv.calls]]
        ELSE [ui |-> [BlankUI EXCEPT
                        !.answered = TRUE, !.answer = n.answer_text,
                        !.agent_heading = ag.heading, !.preview = ag.preview,
                        !.agent_info = ag.info,
                        !.sources_heading = src.heading, !.entries = src.entries,
                        !.notice = src.notice],
              probe |-> [AskProbe(query, max_sources, env) EXCEPT
                            !.chain_calls = inv.calls,
                            !.retriever_calls = n.retriever_calls,
                            !.agent_calls = ag.calls,
                            !.llm_docs = rag.llm_docs,
                            !.source_docs = n.source_docs]]

\* Lines 127-197: the Ask handler.
AskHandler(chain, agent, query, max_sources, env) ==
    IF AskGuard(chain, query)
    THEN [ui |-> [BlankUI EXCEPT !.warning = TRUE],
          probe |-> [BlankProbe EXCEPT !.op = "ask", !.query = query]]
    ELSE AskBody(chain, agent, query, max_sources, env)

\* The call outcomes the handler can meet: none when the guard stops it.
AskEnvs(chain, query) ==
    IF AskGuard(chain, query) THEN {QuietEnv}
    ELSE {AskEnv(o, "dict_result", << >>, "returns") :
             o \in {b \in ChainBehaviours : ~InvokeChain(b).returned}}
         \cup {AskEnv(o, sh, d, r) :
                 o \in {b \in ChainBehaviours : InvokeChain(b).returned},
                 sh \in Shapes \ {"str"}, d \in DocSeqs, r \in {"returns"}}
         \cup {AskEnv(o, "str", d, r) :
                 o \in {b \in ChainBehaviours : InvokeChain(b).returned},
                 d \in DocSeqs, r \in RetrieverOutcomes}

----------------------------------------------------------------------------
(* data_ingest/ingest.py: ingest_folder, which is not among the sources.    *)
(* It is modelled from sections 3 and 4.1 of the specification: a run reads *)
(* the folder, embeds file after file into a new index generation beside    *)
(* the live one, and replaces the live index in one step when every file    *)
(* is embedded; a run that fails drops its generation.                      *)

Rebuilds == 1..MaxRebuilds

NoBuild == [active |-> FALSE, target |-> 0, done |-> 0]

\* ingest_folder starts: the files it will embed.
IngestBegin(folder) == [active |-> TRUE, target |-> folder, done |-> 0]

\* ingest_folder embeds the chunks of one more file into its generation.
IngestEmbed(build) == [build EXCEPT !.done = build.done + 1]

\* The generation a run has written so far.
Generation(build, m) == Index(build.done, build.target, m)

\* The atomic commit: the finished generation becomes the live index.
IngestCommit(live, build, m) == Generation(build, m)

\* A failed run: the live index stays as it was.
IngestAbort(live, build) == live

----------------------------------------------------------------------------
(* app_streamlit.py: the script runs *)

\* Lines 56-60 with the success message after the try statement.
RebuildReport_Always(succeeded) == {"rebuilt_ok"}

\* Lines 56-60: what the sidebar reports after ingest_folder.
RebuildReport(succeeded) == IF succeeded THEN {"rebuilt_ok"} ELSE {"ingest_failed"}

\* Line 123 under st.cache_resource: the body runs when nothing is cached,
\* and what it returned is returned ever after.
Loaded(ix, builds, env) ==
    IF cache.filled THEN [cache |-> cache, log |-> load_log]
    ELSE LET r == LoadRagAndAgent(ix, env)
         IN  [cache |-> [filled |-> TRUE, qa_chain |-> r.qa_chain, agent |-> r.agent],
              log |-> [r.log EXCEPT !.during_build = \E b \in Rebuilds : builds[b].active]]

LoaderEnvs == IF cache.filled THEN {[hf |-> TRUE, faiss |-> TRUE, openai |-> TRUE]} ELSE Envs

Init ==
    /\ annotations \in {"eager", "lazy"}
    /\ files \in 0..NumFiles
    /\ disk_index \in {NoIndex} \cup CompleteIndexes
    /\ staging = [b \in Rebuilds |-> NoBuild]
    /\ cache = EmptyCache
    /\ load_log = NoLoad
    /\ ui = BlankUI
    /\ probe = BlankProbe
    /\ rebuilt = FALSE

\* Line 23 where annotations are evaluated when a def statement runs: the
\* annotation of line 12 raises NameError and the script run ends there.
ImportError ==
    /\ annotations = "eager"
    /\ ui' = [BlankUI EXCEPT !.crashed = TRUE]
    /\ probe' = [BlankProbe EXCEPT !.op = "import", !.escaped = "NameError"]
    /\ UNCHANGED <<annotations, files, disk_index, staging, cache, load_log, rebuilt>>

\* A run with no event: the page is loaded or refreshed.
PageLoad ==
    /\ annotations = "lazy"
    /\ \E env \in LoaderEnvs :
         LET l == Loaded(disk_index, staging, env)
         IN  /\ cache' = l.cache
             /\ load_log' = l.log
             /\ ui' = BlankUI
    /\ probe' = [BlankProbe EXCEPT !.op = "page"]
    /\ UNCHANGED <<annotations, files, disk_index, staging, rebuilt>>

\* Lines 46-52: a file is uploaded and saved under its name.
Upload ==
    /\ annotations = "lazy"
    /\ \E f \in 1..Min(files + 1, NumFiles) :
         files' = IF f > files THEN f ELSE files
    /\ \E env \in LoaderEnvs :
         LET l == Loaded(disk_index, staging, env)
         IN  /\ cache' = l.cache
             /\ load_log' = l.log
             /\ ui' = [BlankUI EXCEPT !.sidebar = {"saved"}]
    /\ probe' = [BlankProbe EXCEPT !.op = "upload"]
    /\ UNCHANGED <<annotations, disk_index, staging, rebuilt>>

\* Lines 54-57: "Rebuild index" is clicked and the run enters ingest_folder.
RebuildBegin ==
    /\ annotations = "lazy"
    /\ \E b \in Rebuilds :
         /\ ~staging[b].active
         /\ staging' = [staging EXCEPT ![b] = IngestBegin(files)]
    /\ UNCHANGED <<annotations, files, disk_index, cache, load_log, ui, probe, rebuilt>>

\* ingest_folder embeds one more file.
IngestStep ==
    /\ \E b \in Rebuilds :
         /\ staging[b].active
         /\ staging[b].done < staging[b].target
         /\ staging' = [staging EXCEPT ![b] = IngestEmbed(staging[b])]
    /\ UNCHANGED <<annotations, files, disk_index, cache, load_log, ui, probe, rebuilt>>

\* ingest_folder returns: line 58, then the rest of the run.
RebuildSucceed ==
    /\ \E b \in Rebuilds, m \in EmbeddingModels :
         /\ staging[b].active
         /\ staging[b].done = staging[b].target
         /\ disk_index' = IngestCommit(disk_index, staging[b], m)
         /\ staging' = [staging EXCEPT ![b] = NoBuild]
    /\ \E env \in LoaderEnvs :
         LET l == Loaded(disk_index', staging', env)
         IN  /\ cache' = l.cache
             /\ load_log' = l.log
             /\ ui' = [BlankUI EXCEPT !.sidebar = RebuildReport(TRUE)]
    /\ probe' = [BlankProbe EXCEPT !.op = "rebuild"]
    /\ rebuilt' = (rebuilt \/ "rebuilt_ok" \in RebuildReport(TRUE))
    /\ UNCHANGED <<annotations, files>>

\* ingest_folder raises: line 60, then the rest of the run.
RebuildFail ==
    /\ \E b \in Rebuilds :
         /\ staging[b].active
         /\ disk_index' = IngestAbort(disk_index, staging[b])
         /\ staging' = [staging EXCEPT ![b] = NoBuild]
    /\ \E env \in LoaderEnvs :
         LET l == Loaded(disk_index', staging', env)
         IN  /\ cache' = l.cache
             /\ load_log' = l.log
             /\ ui' = [BlankUI EXCEPT !.sidebar = RebuildReport(FALSE)]
    /\ probe' = [BlankProbe EXCEPT !.op = "rebuild_failed"]
    /\ rebuilt' = (rebuilt \/ "rebuilt_ok" \in RebuildReport(FALSE))
    /\ UNCHANGED <<annotations, files>>

\* "Ask Agent" is clicked: line 123, then lines 127-197.
Ask ==
    /\ annotations = "lazy"
    /\ \E query \in Queries, max_sources \in MaxSourcesChoices, lenv \in LoaderEnvs :
         LET l == Loaded(disk_index, staging, lenv)
         IN  \E env \in AskEnvs(l.cache.qa_chain, query) :
               LET r == AskHandler(l.cache.qa_chain, l.cache.agent, query, max_sources, env)
               IN  /\ cache' = l.cache
                   /\ load_log' = l.log
                   /\ ui' = r.ui
                   /\ probe' = r.probe
    /\ UNCHANGED <<annotations, files, disk_index, staging, rebuilt>>

Next ==
    \/ ImportError
    \/ PageLoad
    \/ Upload
    \/ RebuildBegin
    \/ IngestStep
    \/ RebuildSucceed
    \/ RebuildFail
    \/ Ask

Spec == Init /\ [][Next]_vars

----------------------------------------------------------------------------
(* The Ask handler and agent_response as components *)

\* A retrieval chain object standing for any chain the handler is given.
StubChain == [kind |-> "stub", index |-> NoIndex]

InitHandlers ==
    /\ annotations = "lazy"
    /\ files = 0
    /\ disk_index = NoIndex
    /\ staging = [b \in Rebuilds |-> NoBuild]
    /\ cache \in {[filled |-> TRUE, qa_chain |-> c, agent |-> a] :
                    c \in {NoChain, StubChain}, a \in {"None", "agent_response"}}
    /\ load_log = NoLoad
    /\ ui = BlankUI
    /\ probe = BlankProbe
    /\ rebuilt = FALSE

\* agent_response(question) is called with the provider answering or raising.
CallAgentResponse ==
    /\ \E question \in Queries, llm \in ProviderCalls :
         LET r == AgentResponse(question, llm)
         IN  probe' = [BlankProbe EXCEPT !.op = "agent_response", !.query = question,
                                         !.llm_calls = r.llm_calls, !.ret = r.ret,
                                         !.escaped = r.raised, !.llm = llm]
    /\ ui' = BlankUI
    /\ UNCHANGED <<annotations, files, disk_index, staging, cache, load_log, rebuilt>>

NextHandlers ==
    \/ Ask
    \/ CallAgentResponse

SpecHandlers == InitHandlers /\ [][NextHandlers]_vars

----------------------------------------------------------------------------
(* Properties *)

\* The chunks of the entries the last run displayed, in display order.
ShownDocs == [i \in 1..Len(ui.entries) |-> ui.entries[i].doc]

\* The last run was an Ask that got past the guard of line 128.
AskRan == probe.op = "ask" /\ ~ui.warning

\* None of the external constructors failed when load_rag_and_agent ran.
ExternalsReturned ==
    load_log.chain_raised \notin {"EmbeddingsError", "LoadError", "OpenAIError"}

\* The index a reader has in hand is a whole generation.
ReadersSeeWholeGenerations ==
    /\ disk_index.exists => Complete(disk_index)
    /\ load_log.view.exists => Complete(load_log.view)
    /\ cache.qa_chain.kind # "None" => Complete(cache.qa_chain.index)

\* The step ends a run of ingest_folder: build b returns or raises.
Finishing(b) == staging[b].active /\ ~staging'[b].active

\* A step changes the live index only by committing a whole generation, in
\* the run that reports success; a run that reports a failure leaves it; and
\* success is reported only for a build that embedded every file it read and
\* whose generation is then the live index.
CommitOnlyOnSuccess ==
    /\ disk_index' # disk_index =>
         /\ Complete(disk_index')
         /\ \E b \in Rebuilds : Finishing(b)
         /\ "rebuilt_ok" \in ui'.sidebar
    /\ \A b \in Rebuilds :
         (Finishing(b) /\ "ingest_failed" \in ui'.sidebar) => disk_index' = disk_index
    /\ \A b \in Rebuilds :
         (Finishing(b) /\ "rebuilt_ok" \in ui'.sidebar) =>
            /\ staging[b].done = staging[b].target
            /\ Complete(disk_index') /\ disk_index'.docs = staging[b].target

C2_AttributionIntegrity ==
    (AskRan /\ ui.answered) =>
        /\ ShownDocs = Take(probe.llm_docs, probe.max_sources)
        /\ probe.retriever_calls = 0

\* C3: agent_response never propagates the provider's exception: when the
\* provider raises, it returns a text that holds the marker "Error while
\* generating response" (and the exception's text), and when the provider
\* answers, it returns the answer unchanged.
C3_ProviderFailureContained ==
    probe.op = "agent_response" =>
        /\ probe.escaped = "none"
        /\ probe.llm.ok => probe.ret = probe.llm.answer
        /\ ~probe.llm.ok =>
             /\ \E i \in 1..Len(probe.ret) : probe.ret[i] = ErrorMarker
             /\ \E i \in 1..Len(probe.ret) : probe.ret[i] = probe.llm.error

\* C3 witness: agent_response was called and the provider raised.
C3_Witness == probe.op = "agent_response" /\ ~probe.llm.ok /\ probe.ret # NoText

\* C4: when no index is persisted, get_retrieval_chain raises
\* FileNotFoundError before it constructs the embedding model, the vector
\* store or the language model, and load_rag_and_agent reports the failure in
\* the sidebar and leaves the chain None; the script run does not crash.
C4_NotFoundSurfaced ==
    (load_log.ran /\ ~load_log.found) =>
        /\ load_log.chain_raised = "FileNotFoundError"
        /\ load_log.constructed = {}
        /\ ~load_log.view.exists
        /\ "chain_failed" \in load_log.msgs
        /\ cache.filled /\ cache.qa_chain = NoChain
        /\ ~ui.crashed

\* C4 witness: the loader ran when no index was persisted, and its run is the
\* one that has just ended.
C4_Witness ==
    /\ load_log.ran /\ ~load_log.found
    /\ load_log.chain_raised = "FileNotFoundError"
    /\ probe.op = "page" /\ ~disk_index.exists

\* C5 (as claimed): when the index that is loaded was built with another
\* embedding model than the one used at query time, loading it surfaces a
\* ConfigMismatchError, and no chain over the mismatched index is returned.
\* (Stated for the loads in which no external constructor failed.)
C5_ConfigMismatchDetected ==
    (load_log.ran /\ load_log.view.exists /\ Mismatch(load_log.view)
        /\ ExternalsReturned) =>
        /\ load_log.chain_raised = "ConfigMismatchError"
        /\ cache.qa_chain = NoChain

\* C6 (as claimed): agent_response calls the provider exactly once per
\* question, and one Ask invokes the retrieval chain exactly once, whatever
\* the chain raises.
C6_OneInvocation ==
    /\ probe.op = "agent_response" => probe.llm_calls = 1
    /\ AskRan => probe.chain_calls = 1

\* C6 (amended): agent_response calls the provider exactly once per question;
\* one Ask invokes the retrieval chain once when the first invocation returns
\* or raises anything but TypeError, twice when the first raises TypeError and
\* retrieval_chain.run(query) returns, and three times when that raises too -
\* never more than three, and no invocation is made after one has returned.
C6_BoundedInvocations ==
    /\ probe.op = "agent_response" => probe.llm_calls = 1
    /\ AskRan =>
         /\ probe.chain_calls \in 1..3
         /\ probe.chain_calls = 1 <=> probe.o[1] # "TypeError"
         /\ probe.chain_calls = 2 <=> (probe.o[1] = "TypeError" /\ probe.o[2] = "return")
         /\ probe.chain_calls = 3 <=> (probe.o[1] = "TypeError" /\ probe.o[2] # "return")

\* C6 witness: an Ask whose first two invocations raised and whose third
\* returned the answer that is displayed.
C6_Witness ==
    /\ AskRan /\ ui.answered /\ probe.chain_calls = 3
    /\ probe.o = <<"TypeError", "Exception", "return">>

\* C7: an Ask that ends with no source chunk still displays its answer and
\* shows the "No source documents returned" notice; an Ask whose source list
\* is not empty shows no notice and at least one source entry.
C7_EmptySourcesObservable ==
    (AskRan /\ ui.answered) =>
        /\ ui.answer # NoText
        /\ probe.source_docs = << >> =>
             ui.notice /\ ui.entries = << >> /\ ~ui.sources_heading
        /\ probe.source_docs # << >> =>
             ~ui.notice /\ Len(ui.entries) >= 1 /\ ui.sources_heading

\* C7 witness: an answered Ask of a chain that returned a dict whose
\* source_documents list is empty.
C7_Witness ==
    /\ AskRan /\ ui.answered /\ ui.notice
    /\ probe.source_docs = << >> /\ probe.llm_docs = << >> /\ probe.retriever_calls = 0

\* C8 (as claimed): once a rebuild has reported success, an Ask with a
\* non-empty query is answered, by a retrieval chain loaded from the rebuilt
\* index.  (Stated for the runs in which no external constructor failed.)
C8_AskAfterRebuild ==
    (probe.op = "ask" /\ probe.query # "" /\ rebuilt /\ ExternalsReturned) =>
        /\ ~ui.warning
        /\ cache.qa_chain.kind # "None"
        /\ cache.qa_chain.index = disk_index

\* C9 (as claimed): with the agent initialised, every answered Ask runs the
\* agent on the query and displays its response as the tool-run preview, and
\* a failure of that step is shown as an info notice with the answer and the
\* sources of the same Ask displayed all the same.
C9_AgentPreview ==
    (AskRan /\ ui.answered /\ cache.agent # "None") =>
        /\ probe.agent_calls = 1
        /\ ui.agent_heading /\ ui.preview # NoText
        /\ ui.answer # NoText
        /\ ui.notice \/ Len(ui.entries) >= 1

\* C10: an Ask with an empty query, or with the chain None, calls neither the
\* chain nor the retriever nor the agent and displays the warning and nothing
\* else; and no exception of the chain, the retriever or the agent leaves the
\* handler: a chain that raises ends in the displayed error, a retriever that
\* raises in an empty source list, an agent step that raises in the notice.
C10_GuardAndContainment ==
    /\ (probe.op = "ask" /\ (probe.query = "" \/ cache.qa_chain.kind = "None")) =>
         /\ probe.chain_calls = 0 /\ probe.retriever_calls = 0 /\ probe.agent_calls = 0
         /\ ui = [BlankUI EXCEPT !.warning = TRUE]
    /\ probe.op = "ask" =>
         /\ probe.escaped = "none" /\ ~ui.crashed
         /\ ui.warning \/ ui.error \/ ui.answered
         /\ (AskRan /\ ~InvokeChain(probe.o).returned) => ui.error /\ ~ui.answered
         /\ (ui.answered /\ cache.agent # "None" /\ probe.agent_calls = 0) => ui.agent_info

\* C10 witness: an Ask whose chain raised on every invocation, which ended in
\* the displayed error.
C10_Witness ==
    /\ AskRan /\ ui.error /\ probe.chain_calls = 3
    /\ probe.o = <<"TypeError", "Exception", "Exception">>

====
